---- MODULE Spec2Model ----
(***************************************************************************)
(* A model of src/huffman_code.py: frequency counting, the greedy merge    *)
(* loop over a sorted candidate list, code assignment into the module      *)
(* level dictionary code_dict, encoding and decoding.                      *)
(*                                                                         *)
(* Python values are represented as follows.                               *)
(*   str            a sequence of one-character symbols                    *)
(*   bit string     a sequence over {0, 1}                                 *)
(*   dict           a sequence of <<key, value>> pairs in insertion order  *)
(*                  (a dict iterates in insertion order, and assigning to  *)
(*                  an existing key keeps the key's position)              *)
(*   tree node      a record [sym, kids]: a character c is                 *)
(*                  [sym |-> c, kids |-> <<>>], a list [l, r] is           *)
(*                  [sym |-> "", kids |-> <<l, r>>]                        *)
(*   candidate      a tuple <<weight, representative char, node>>          *)
(***************************************************************************)
EXTENDS Integers, Sequences, FiniteSets, TLC

VARIABLES
    code_dict,        \* the module-level dictionary (lines 60-61)
    calls,            \* number of public calls made so far
    op,               \* name of the last public call
    original_string,  \* argument of the last public call
    huff_codes,       \* table held by the caller: [alias, val]
    encoded_string,   \* last result of huffman_encoding
    decode_input,     \* bit string handed to the last huffman_decoding
    decoded_string,   \* result of the last huffman_decoding
    current_code,     \* huffman_decoding's accumulator when its loop ended
    size_bits,        \* number printed by the last bits_after_encoding
    err,              \* exception raised by the last call, "" if none
    pc,               \* position in the stepped huffman_code pipeline
    letter_occurrence,\* the frequency dictionary handed to node_reducer
    node_list,        \* node_reducer's sorted candidate list
    merges,           \* iterations of node_reducer's while loop so far
    third_compared,   \* some tuple comparison went past (weight, char)
    tree              \* node_reducer's return value

vars == <<code_dict, calls, op, original_string, huff_codes, encoded_string,
          decode_input, decoded_string, current_code, size_bits, err, pc,
          letter_occurrence, node_list, merges, third_compared, tree>>

(***************************************************************************)
(* Bounds                                                                  *)
(***************************************************************************)
MaxLen == 3        \* longest input string of a public call
MaxCalls == 2      \* public calls that may write code_dict in one run
MaxFreq == 3       \* largest count in a frequency table given to node_reducer
MaxCodeLen == 3    \* longest code length tried by the brute-force optimum
PriorLen == 2      \* longest string of the call made before a stepped run

Symbols == {"a", "b", "c", "d"}
StrSymbols == {"a", "b", "c"}
SymSeq == <<"a", "b", "c", "d">>

\* Python orders one-character strings by code point.
Ord == ("a" :> 97) @@ ("b" :> 98) @@ ("c" :> 99) @@ ("d" :> 100)

Strings(n) == UNION {[1..k -> StrSymbols] : k \in 0..n}

(***************************************************************************)
(* dict                                                                    *)
(***************************************************************************)
EmptyDict == <<>>

DictKeys(d) == {d[i][1] : i \in 1..Len(d)}

DictHas(d, k) == \E i \in 1..Len(d) : d[i][1] = k

DictGet(d, k) == d[CHOOSE i \in 1..Len(d) : d[i][1] = k][2]

DictSet(d, k, v) ==
    IF DictHas(d, k)
    THEN [i \in 1..Len(d) |-> IF d[i][1] = k THEN <<k, v>> ELSE d[i]]
    ELSE Append(d, <<k, v>>)

(***************************************************************************)
(* letter_distribution (lines 4-23)                                        *)
(***************************************************************************)
RECURSIVE letter_distribution_loop(_, _)
letter_distribution_loop(s, letter_occurrence_0) ==
    IF s = <<>> THEN letter_occurrence_0
    ELSE LET char == Head(s) IN
         letter_distribution_loop(Tail(s),
            IF DictHas(letter_occurrence_0, char)
            THEN DictSet(letter_occurrence_0, char,
                         DictGet(letter_occurrence_0, char) + 1)
            ELSE DictSet(letter_occurrence_0, char, 1))

letter_distribution(s) == letter_distribution_loop(s, EmptyDict)

(***************************************************************************)
(* tree nodes                                                              *)
(***************************************************************************)
Leaf(c) == [sym |-> c, kids |-> <<>>]

Pair(l, r) == [sym |-> "", kids |-> <<l, r>>]

NoTree == [sym |-> "", kids |-> <<>>]

\* type(x) == list
IsList(n) == n.kids # <<>>

\* len(x): a list has len(kids) items, a character is a str of length 1
PyLen(n) == IF IsList(n) THEN Len(n.kids) ELSE 1

\* x[i], 0-based: indexing a one-character str gives the character
Item(n, i) == IF IsList(n) THEN n.kids[i + 1] ELSE n

(***************************************************************************)
(* node_reducer (lines 26-57)                                              *)
(***************************************************************************)
\* a variant that orders the candidates by descending weight
TupleLessDescending(x, y) ==
    \/ x[1] > y[1]
    \/ x[1] = y[1] /\ Ord[x[2]] < Ord[y[2]]

\* x < y on candidate tuples, decided on (weight, char).  Python goes on to
\* the third component only when both are equal; ThirdCompared records it.
TupleLess(x, y) ==
    \/ x[1] < y[1]
    \/ x[1] = y[1] /\ Ord[x[2]] < Ord[y[2]]

ThirdCompared(nl, v) ==
    \E i \in 1..Len(nl) : nl[i][1] = v[1] /\ nl[i][2] = v[2]

\* a variant that uses a plain list: list.append keeps no order
SortedAddAppend(nl, v) == Append(nl, v)

\* SortedList.add: insert v after every element that is not greater
SortedAdd(nl, v) ==
    LET pos == Cardinality({i \in 1..Len(nl) : ~TupleLess(v, nl[i])})
    IN  SubSeq(nl, 1, pos) \o <<v>> \o SubSeq(nl, pos + 1, Len(nl))

\* lines 41-44
RECURSIVE InitialNodes(_, _)
InitialNodes(d, nl) ==
    IF d = <<>> THEN nl
    ELSE LET char == Head(d)[1] IN
         InitialNodes(Tail(d), SortedAdd(nl, <<Head(d)[2], char, Leaf(char)>>))

RECURSIVE InitialThird(_, _)
InitialThird(d, nl) ==
    IF d = <<>> THEN FALSE
    ELSE LET char == Head(d)[1]
             v == <<Head(d)[2], char, Leaf(char)>>
         IN  ThirdCompared(nl, v) \/ InitialThird(Tail(d), SortedAdd(nl, v))

\* a variant that pairs a's subtree with itself ([a[2], a[2]])
MergedTwice(nl) ==
    LET a == nl[1]
        b == nl[2]
    IN  <<a[1] + b[1], a[2], Pair(a[3], a[3])>>

\* lines 48-54: the tuple built from the two front elements
Merged(nl) ==
    LET a == nl[1]
        b == nl[2]
    IN  <<a[1] + b[1], a[2], Pair(a[3], b[3])>>

\* lines 48-54: one iteration of the while loop
MergeStep(nl) == SortedAdd(SubSeq(nl, 3, Len(nl)), Merged(nl))

RECURSIVE ReduceLoop(_)
ReduceLoop(nl) == IF Len(nl) > 1 THEN ReduceLoop(MergeStep(nl)) ELSE nl

\* a variant that returns None for an empty list instead of indexing it
ReturnOfGuarded(nl) ==
    IF Len(nl) = 0 THEN [err |-> "", tree |-> NoTree]
    ELSE [err |-> "", tree |-> nl[1][3]]

\* line 57: node_list[0][2], an IndexError on an empty list
ReturnOf(nl) ==
    IF Len(nl) = 0 THEN [err |-> "IndexError", tree |-> NoTree]
    ELSE [err |-> "", tree |-> nl[1][3]]

node_reducer(letter_occurrence_dictionary) ==
    ReturnOf(ReduceLoop(InitialNodes(letter_occurrence_dictionary, <<>>)))

(***************************************************************************)
(* code_assigner (lines 63-96); cd is the value of the global code_dict    *)
(***************************************************************************)
\* a variant whose base case assigns the current index, the empty string
\* at the root, instead of '1'
RECURSIVE code_assigner_index(_, _, _)
code_assigner_index(nested_list, index, cd) ==
    IF PyLen(nested_list) = 1
    THEN [ret |-> <<<<Item(nested_list, 0).sym, index>>>>,
          alias |-> FALSE, code_dict |-> cd]
    ELSE LET left == Item(nested_list, 0)
             right == Item(nested_list, 1)
             cd1 == IF IsList(left)
                    THEN code_assigner_index(left, Append(index, 0), cd).code_dict
                    ELSE DictSet(cd, left.sym, Append(index, 0))
             cd2 == IF IsList(right)
                    THEN code_assigner_index(right, Append(index, 1), cd1).code_dict
                    ELSE DictSet(cd1, right.sym, Append(index, 1))
         IN  [ret |-> cd2, alias |-> TRUE, code_dict |-> cd2]

RECURSIVE code_assigner(_, _, _)
code_assigner(nested_list, index, cd) ==
    IF PyLen(nested_list) = 1
    THEN [ret |-> <<<<Item(nested_list, 0).sym, <<1>>>>>>,
          alias |-> FALSE, code_dict |-> cd]
    ELSE LET left == Item(nested_list, 0)
             right == Item(nested_list, 1)
             cd1 == IF IsList(left)
                    THEN code_assigner(left, Append(index, 0), cd).code_dict
                    ELSE DictSet(cd, left.sym, Append(index, 0))
             cd2 == IF IsList(right)
                    THEN code_assigner(right, Append(index, 1), cd1).code_dict
                    ELSE DictSet(cd1, right.sym, Append(index, 1))
         IN  [ret |-> cd2, alias |-> TRUE, code_dict |-> cd2]

(***************************************************************************)
(* huffman_code (lines 99-115)                                             *)
(***************************************************************************)
huffman_code(s, cd) ==
    LET letter_occurrence_dictionary == letter_distribution(s)
        node_reduced_list == node_reducer(letter_occurrence_dictionary)
    IN  IF node_reduced_list.err # ""
        THEN [err |-> node_reduced_list.err, ret |-> EmptyDict,
              alias |-> FALSE, code_dict |-> cd]
        ELSE LET r == code_assigner(node_reduced_list.tree, <<>>, cd)
             IN  [err |-> "", ret |-> r.ret, alias |-> r.alias,
                  code_dict |-> r.code_dict]

(***************************************************************************)
(* huffman_encoding (lines 118-135)                                        *)
(***************************************************************************)
RECURSIVE encoding_loop(_, _, _)
encoding_loop(s, char_code, encoded) ==
    IF s = <<>> THEN encoded
    ELSE encoding_loop(Tail(s), char_code,
                       encoded \o DictGet(char_code, Head(s)))

huffman_encoding(s, cd) ==
    LET h == huffman_code(s, cd)
    IN  IF h.err # ""
        THEN [err |-> h.err, ret |-> <<>>, code_dict |-> cd]
        ELSE [err |-> "", ret |-> encoding_loop(s, h.ret, <<>>),
              code_dict |-> h.code_dict]

(***************************************************************************)
(* bits_after_encoding (lines 153-167); the number before " bits"          *)
(***************************************************************************)
RECURSIVE SumCodeLens(_)
SumCodeLens(d) == IF d = <<>> THEN 0 ELSE Len(Head(d)[2]) + SumCodeLens(Tail(d))

bits_after_encoding(s, cd) ==
    LET h == huffman_code(s, cd)
    IN  IF h.err # ""
        THEN [err |-> h.err, ret |-> 0, code_dict |-> cd]
        ELSE LET e == huffman_encoding(s, h.code_dict)
             IN  [err |-> "",
                  ret |-> Len(h.ret) * 8 + SumCodeLens(h.ret) + Len(e.ret),
                  code_dict |-> e.code_dict]

(***************************************************************************)
(* huffman_decoding (lines 171-199)                                        *)
(***************************************************************************)
\* line 186: {v: k for k, v in code_dict.items()}; a later key with the
\* same code replaces an earlier one
ReverseHas(d, code) == \E i \in 1..Len(d) : d[i][2] = code

ReverseGet(d, code) ==
    d[CHOOSE i \in 1..Len(d) :
        /\ d[i][2] = code
        /\ \A j \in (i + 1)..Len(d) : d[j][2] # code][1]

RECURSIVE decoding_loop(_, _, _, _)
decoding_loop(bits, d, decoded, current) ==
    IF bits = <<>>
    THEN [decoded_string |-> decoded, current_code |-> current]
    ELSE LET cur == Append(current, Head(bits)) IN
         IF ReverseHas(d, cur)
         THEN decoding_loop(Tail(bits), d, Append(decoded, ReverseGet(d, cur)), <<>>)
         ELSE decoding_loop(Tail(bits), d, decoded, cur)

huffman_decoding(encoded, d) == decoding_loop(encoded, d, <<>>, <<>>)

(***************************************************************************)
(* The caller's view of a returned table.  code_assigner returns the       *)
(* global dictionary itself for a tree with children (line 96) and a new   *)
(* dictionary for a single character (line 79).                            *)
(***************************************************************************)
NoTable == [alias |-> FALSE, val |-> EmptyDict]

Held(r) == [alias |-> r.alias, val |-> IF r.alias THEN EmptyDict ELSE r.ret]

Deref(h, cd) == IF h.alias THEN cd ELSE h.val

(***************************************************************************)
(* Specification Spec: a caller making public calls one after another on   *)
(* a freshly imported module.                                              *)
(***************************************************************************)
Init ==
    /\ code_dict = EmptyDict
    /\ calls = 0
    /\ op = "none"
    /\ original_string = <<>>
    /\ huff_codes = NoTable
    /\ encoded_string = <<>>
    /\ decode_input = <<>>
    /\ decoded_string = <<>>
    /\ current_code = <<>>
    /\ size_bits = 0
    /\ err = ""
    /\ pc = "idle"
    /\ letter_occurrence = EmptyDict
    /\ node_list = <<>>
    /\ merges = 0
    /\ third_compared = FALSE
    /\ tree = NoTree

pipeline_vars == <<pc, letter_occurrence, node_list, merges, third_compared, tree>>

\* huffman_code(original_string), lines 99-115
HuffmanCodeCall ==
    /\ pc = "idle"
    /\ calls < MaxCalls
    /\ \E s \in Strings(MaxLen) :
         LET r == huffman_code(s, code_dict) IN
         /\ code_dict' = r.code_dict
         /\ original_string' = s
         /\ err' = r.err
         /\ huff_codes' = IF r.err = "" THEN Held(r) ELSE huff_codes
    /\ calls' = calls + 1
    /\ op' = "huffman_code"
    /\ UNCHANGED <<encoded_string, decode_input, decoded_string, current_code,
                   size_bits>>
    /\ UNCHANGED pipeline_vars

\* huffman_encoding(original_string), lines 118-135
HuffmanEncodingCall ==
    /\ pc = "idle"
    /\ calls < MaxCalls
    /\ \E s \in Strings(MaxLen) :
         LET r == huffman_encoding(s, code_dict) IN
         /\ code_dict' = r.code_dict
         /\ original_string' = s
         /\ err' = r.err
         /\ encoded_string' = IF r.err = "" THEN r.ret ELSE encoded_string
    /\ calls' = calls + 1
    /\ op' = "huffman_encoding"
    /\ UNCHANGED <<huff_codes, decode_input, decoded_string, current_code,
                   size_bits>>
    /\ UNCHANGED pipeline_vars

\* bits_after_encoding(original_string), lines 153-167
BitsAfterEncodingCall ==
    /\ pc = "idle"
    /\ calls < MaxCalls
    /\ \E s \in Strings(MaxLen) :
         LET r == bits_after_encoding(s, code_dict) IN
         /\ code_dict' = r.code_dict
         /\ original_string' = s
         /\ err' = r.err
         /\ size_bits' = IF r.err = "" THEN r.ret ELSE size_bits
    /\ calls' = calls + 1
    /\ op' = "bits_after_encoding"
    /\ UNCHANGED <<huff_codes, encoded_string, decode_input, decoded_string,
                   current_code>>
    /\ UNCHANGED pipeline_vars

\* huffman_decoding(bits, table), lines 171-199, on the first n bits of the
\* encoded string and the table the caller holds
HuffmanDecodingCall ==
    /\ pc = "idle"
    /\ huff_codes # NoTable
    /\ \E n \in 0..Len(encoded_string) :
         LET bits == SubSeq(encoded_string, 1, n)
             r == huffman_decoding(bits, Deref(huff_codes, code_dict))
         IN  /\ decode_input' = bits
             /\ decoded_string' = r.decoded_string
             /\ current_code' = r.current_code
    /\ err' = ""
    /\ op' = "huffman_decoding"
    /\ UNCHANGED <<code_dict, calls, original_string, huff_codes, encoded_string,
                   size_bits>>
    /\ UNCHANGED pipeline_vars

\* the script body, lines 203-222, for an input original_string
Main ==
    /\ pc = "idle"
    /\ calls < MaxCalls
    /\ \E s \in Strings(MaxLen) :
         LET e == huffman_encoding(s, code_dict)                 \* line 209
             h == huffman_code(s, e.code_dict)                   \* line 213
             b == bits_after_encoding(s, h.code_dict)            \* line 218
             d == huffman_decoding(e.ret, Deref(Held(h), b.code_dict)) \* 221
         IN  /\ original_string' = s
             /\ IF e.err # ""
                THEN /\ err' = e.err
                     /\ UNCHANGED <<code_dict, huff_codes, encoded_string,
                                    decode_input, decoded_string, current_code,
                                    size_bits>>
                ELSE /\ err' = ""
                     /\ code_dict' = b.code_dict
                     /\ huff_codes' = Held(h)
                     /\ encoded_string' = e.ret
                     /\ size_bits' = b.ret
                     /\ decode_input' = e.ret
                     /\ decoded_string' = d.decoded_string
                     /\ current_code' = d.current_code
    /\ calls' = calls + 1
    /\ op' = "main"
    /\ UNCHANGED pipeline_vars

Next ==
    \/ HuffmanCodeCall
    \/ HuffmanEncodingCall
    \/ BitsAfterEncodingCall
    \/ HuffmanDecodingCall
    \/ Main

Spec == Init /\ [][Next]_vars

(***************************************************************************)
(* Specification PipelineSpec: one run of                                  *)
(* letter_distribution -> node_reducer -> code_assigner -> encoding loop   *)
(* -> huffman_decoding, with node_reducer's while loop taken one           *)
(* iteration at a time.  The run starts on a freshly imported module or    *)
(* after one earlier huffman_code call, and node_reducer is also entered   *)
(* directly with a frequency dictionary of the caller's.                   *)
(***************************************************************************)
\* a frequency dictionary with keys in alphabetical order; 0 means absent
TableOf(g) ==
    LET keys == SelectSeq(SymSeq, LAMBDA c : g[c] > 0)
    IN  [i \in 1..Len(keys) |-> <<keys[i], g[keys[i]]>>]

Tables == {TableOf(g) : g \in [Symbols -> 0..MaxFreq]}

PipelineInit ==
    /\ code_dict = EmptyDict
    /\ calls = 0
    /\ op = "none"
    /\ original_string = <<>>
    /\ huff_codes = NoTable
    /\ encoded_string = <<>>
    /\ decode_input = <<>>
    /\ decoded_string = <<>>
    /\ current_code = <<>>
    /\ size_bits = 0
    /\ err = ""
    /\ pc = "fresh"
    /\ letter_occurrence = EmptyDict
    /\ node_list = <<>>
    /\ merges = 0
    /\ third_compared = FALSE
    /\ tree = NoTree

\* an earlier huffman_code call, lines 99-115, leaving its codes in code_dict
PriorCall ==
    /\ pc = "fresh"
    /\ \E s \in Strings(PriorLen) \ {<<>>} :
         code_dict' = huffman_code(s, code_dict).code_dict
    /\ calls' = calls + 1
    /\ pc' = "start"
    /\ UNCHANGED <<op, original_string, huff_codes, encoded_string, decode_input,
                   decoded_string, current_code, size_bits, err,
                   letter_occurrence, node_list, merges, third_compared, tree>>

\* line 112
LetterDistributionCall ==
    /\ pc \in {"fresh", "start"}
    /\ \E s \in Strings(MaxLen) :
         /\ original_string' = s
         /\ letter_occurrence' = letter_distribution(s)
    /\ op' = "huffman_encoding"
    /\ pc' = "counted"
    /\ UNCHANGED <<code_dict, calls, huff_codes, encoded_string, decode_input,
                   decoded_string, current_code, size_bits, err, node_list,
                   merges, third_compared, tree>>

\* lines 41-44, entered from huffman_code (line 113)
NodeReducerCall ==
    /\ pc = "counted"
    /\ node_list' = InitialNodes(letter_occurrence, <<>>)
    /\ third_compared' = InitialThird(letter_occurrence, <<>>)
    /\ merges' = 0
    /\ pc' = "loop"
    /\ UNCHANGED <<code_dict, calls, op, original_string, huff_codes,
                   encoded_string, decode_input, decoded_string, current_code,
                   size_bits, err, letter_occurrence, tree>>

\* lines 41-44, entered by a caller with its own frequency dictionary
NodeReducerDirect ==
    /\ pc \in {"fresh", "start"}
    /\ \E d \in Tables :
         /\ letter_occurrence' = d
         /\ node_list' = InitialNodes(d, <<>>)
         /\ third_compared' = InitialThird(d, <<>>)
    /\ merges' = 0
    /\ op' = "node_reducer"
    /\ pc' = "loop"
    /\ UNCHANGED <<code_dict, calls, original_string, huff_codes, encoded_string,
                   decode_input, decoded_string, current_code, size_bits, err,
                   tree>>

\* lines 46-54: one iteration
NodeReducerMerge ==
    /\ pc = "loop"
    /\ Len(node_list) > 1
    /\ node_list' = MergeStep(node_list)
    /\ third_compared' =
         (third_compared \/
          ThirdCompared(SubSeq(node_list, 3, Len(node_list)), Merged(node_list)))
    /\ merges' = merges + 1
    /\ UNCHANGED <<code_dict, calls, op, original_string, huff_codes,
                   encoded_string, decode_input, decoded_string, current_code,
                   size_bits, err, pc, letter_occurrence, tree>>

\* lines 46 and 57: the loop condition is false, node_list[0][2] is returned
NodeReducerReturn ==
    /\ pc = "loop"
    /\ Len(node_list) <= 1
    /\ LET r == ReturnOf(node_list) IN
       IF r.err # ""
       THEN /\ err' = r.err
            /\ pc' = "failed"
            /\ UNCHANGED tree
       ELSE /\ tree' = r.tree
            /\ pc' = "reduced"
            /\ UNCHANGED err
    /\ UNCHANGED <<code_dict, calls, op, original_string, huff_codes,
                   encoded_string, decode_input, decoded_string, current_code,
                   size_bits, letter_occurrence, node_list, merges,
                   third_compared>>

\* lines 114-115: code_assigner(node_reduced_list, "")
CodeAssignerCall ==
    /\ pc = "reduced"
    /\ LET r == code_assigner(tree, <<>>, code_dict) IN
         /\ code_dict' = r.code_dict
         /\ huff_codes' = Held(r)
    /\ pc' = "assigned"
    /\ UNCHANGED <<calls, op, original_string, encoded_string, decode_input,
                   decoded_string, current_code, size_bits, err,
                   letter_occurrence, node_list, merges, third_compared, tree>>

\* lines 130-135
EncodingLoop ==
    /\ pc = "assigned"
    /\ op = "huffman_encoding"
    /\ encoded_string' =
         encoding_loop(original_string, Deref(huff_codes, code_dict), <<>>)
    /\ pc' = "encoded"
    /\ UNCHANGED <<code_dict, calls, op, original_string, huff_codes,
                   decode_input, decoded_string, current_code, size_bits, err,
                   letter_occurrence, node_list, merges, third_compared, tree>>

\* line 221: huffman_decoding(encoded_string, huff_codes)
DecodingCall ==
    /\ pc = "encoded"
    /\ LET r == huffman_decoding(encoded_string, Deref(huff_codes, code_dict)) IN
         /\ decoded_string' = r.decoded_string
         /\ current_code' = r.current_code
    /\ decode_input' = encoded_string
    /\ pc' = "decoded"
    /\ UNCHANGED <<code_dict, calls, op, original_string, huff_codes,
                   encoded_string, size_bits, err, letter_occurrence, node_list,
                   merges, third_compared, tree>>

PipelineNext ==
    \/ PriorCall
    \/ LetterDistributionCall
    \/ NodeReducerCall
    \/ NodeReducerDirect
    \/ NodeReducerMerge
    \/ NodeReducerReturn
    \/ CodeAssignerCall
    \/ EncodingLoop
    \/ DecodingCall

PipelineSpec == PipelineInit /\ [][PipelineNext]_vars

(***************************************************************************)
(* Properties                                                              *)
(***************************************************************************)
Range(s) == {s[i] : i \in 1..Len(s)}

IsPrefix(u, v) == Len(u) <= Len(v) /\ SubSeq(v, 1, Len(u)) = u

\* the table the last call returned, as the caller sees it now
Table == Deref(huff_codes, code_dict)

\* dict equality: the same keys with the same values, in any order
DictEq(d, e) ==
    /\ DictKeys(d) = DictKeys(e)
    /\ \A k \in DictKeys(d) : DictGet(d, k) = DictGet(e, k)

Ones(n) == [i \in 1..n |-> 1]

SingleSymbol(s) == Len(s) >= 1 /\ Cardinality(Range(s)) = 1

\* C1: round trip. After the script body has run on a non-empty string s,
\* huffman_decoding(huffman_encoding(s), huffman_code(s)) is exactly s.
C1_RoundTrip ==
    (op = "main" /\ err = "") => decoded_string = original_string

\* C2: every table returned by huffman_code gives each of its symbols a
\* non-empty code, no two symbols the same code, and no code that is a
\* prefix of another symbol's code.
C2_PrefixFree ==
    (op = "huffman_code" /\ err = "") =>
        /\ \A i \in 1..Len(Table) : Table[i][2] # <<>>
        /\ \A i, j \in 1..Len(Table) :
             i # j => ~IsPrefix(Table[i][2], Table[j][2])

\* C3: no state is shared across calls. Whatever calls came before,
\* huffman_code(s) returns the table it returns as the first call made, and
\* the keys of that table are exactly the distinct symbols of s.
C3_NoSharedState ==
    (op = "huffman_code" /\ err = "") =>
        /\ DictEq(Table, huffman_code(original_string, EmptyDict).ret)
        /\ DictKeys(Table) = Range(original_string)

\* C6: truncated stream. When huffman_decoding ends with a non-empty
\* accumulator that matched no code, it fails with TruncatedStream instead
\* of returning a decoded string.
C6_TruncatedStream ==
    (op = "huffman_decoding" /\ current_code # <<>>) => err = "TruncatedStream"

\* C8: encoding the empty input returns the empty bit string and raises no
\* error.
C8_EmptyEncoding ==
    (op = "huffman_encoding" /\ original_string = <<>>) =>
        (err = "" /\ encoded_string = <<>>)

(***************************************************************************)
(* C4: optimality                                                          *)
(***************************************************************************)
RECURSIVE Pow2(_)
Pow2(n) == IF n = 0 THEN 1 ELSE 2 * Pow2(n - 1)

RECURSIVE SumTo(_, _)
SumTo(f, n) == IF n = 0 THEN 0 ELSE f[n] + SumTo(f, n - 1)

\* frequency-weighted total code length of table t for frequencies d
Cost(d, t) == SumTo([i \in 1..Len(d) |-> d[i][2] * Len(DictGet(t, d[i][1]))], Len(d))

\* Code lengths l[1..n] >= 1 are those of some prefix-free binary code iff
\* they satisfy Kraft's inequality, sum of 2^-l[i] <= 1.
Kraft(l, n) ==
    SumTo([i \in 1..n |-> Pow2(MaxCodeLen - l[i])], n) <= Pow2(MaxCodeLen)

\* the costs of all prefix-free codes with code lengths in 1..MaxCodeLen
CodeCosts(d) ==
    {SumTo([i \in 1..Len(d) |-> d[i][2] * l[i]], Len(d)) :
        l \in {m \in [1..Len(d) -> 1..MaxCodeLen] : Kraft(m, Len(d))}}

\* C4: the code lengths produced by node_reducer followed by code_assigner
\* have a frequency-weighted total that no prefix-free binary code for the
\* same frequencies undercuts.
C4_Optimal ==
    pc = "assigned" =>
        /\ DictKeys(letter_occurrence) \subseteq DictKeys(Table)
        /\ \A j, k \in DictKeys(letter_occurrence) :
             j # k => ~IsPrefix(DictGet(Table, j), DictGet(Table, k))
        /\ \A c \in CodeCosts(letter_occurrence) :
             Cost(letter_occurrence, Table) <= c
        /\ Cost(letter_occurrence, Table) \in CodeCosts(letter_occurrence)

C4_Witness ==
    /\ pc = "assigned"
    /\ calls = 1
    /\ Len(letter_occurrence) = 4
    /\ \E k \in DictKeys(letter_occurrence) : Len(DictGet(Table, k)) = 3

(***************************************************************************)
(* C5: single-symbol input                                                 *)
(***************************************************************************)
\* C5: for a string of n >= 1 copies of one symbol a, the code table is
\* {a: "1"}, the encoding is n copies of "1", and decoding that bit string
\* with that table gives the string back.
C5_SingleSymbol ==
    (op = "huffman_encoding" /\ SingleSymbol(original_string)) =>
        /\ pc \in {"assigned", "encoded", "decoded"} =>
             Table = <<<<original_string[1], <<1>>>>>>
        /\ pc \in {"encoded", "decoded"} =>
             encoded_string = Ones(Len(original_string))
        /\ pc = "decoded" =>
             /\ decode_input = Ones(Len(original_string))
             /\ decoded_string = original_string

C5_Witness ==
    /\ pc = "decoded"
    /\ SingleSymbol(original_string)
    /\ Len(original_string) = MaxLen
    /\ code_dict # EmptyDict

(***************************************************************************)
(* C7: empty input                                                         *)
(***************************************************************************)
EmptyCounted ==
    (op = "huffman_encoding" /\ original_string = <<>> /\ pc # "fresh"
        /\ pc # "start") => letter_occurrence = EmptyDict

Returned == pc \in {"failed", "reduced", "assigned", "encoded", "decoded"}

RECURSIVE LeafSeq(_)
LeafSeq(n) ==
    IF ~IsList(n) THEN <<n.sym>>
    ELSE LeafSeq(n.kids[1]) \o (IF Len(n.kids) >= 2 THEN LeafSeq(n.kids[2]) ELSE <<>>)

RECURSIVE AllBinary(_)
AllBinary(n) ==
    ~IsList(n) \/ (Len(n.kids) = 2 /\ AllBinary(n.kids[1]) /\ AllBinary(n.kids[2]))

\* all leaves of all candidates, left to right
RECURSIVE CandidateLeaves(_)
CandidateLeaves(nl) ==
    IF nl = <<>> THEN <<>> ELSE LeafSeq(Head(nl)[3]) \o CandidateLeaves(Tail(nl))

NoRepeat(s) == \A i, j \in 1..Len(s) : i # j => s[i] # s[j]

LeafWeight(d, n) ==
    LET ls == LeafSeq(n) IN SumTo([i \in 1..Len(ls) |-> DictGet(d, ls[i])], Len(ls))

\* C9: on a non-empty frequency table, at every iteration of the merge loop
\* the candidates' leaf sets partition the distinct symbols and each
\* candidate's weight is the sum of its leaves' frequencies; the loop ends
\* after (distinct symbols - 1) merges, and the returned tree has one leaf
\* per distinct symbol and two children under every internal node.
C9_TreeInvariant ==
    letter_occurrence # EmptyDict =>
        /\ pc = "loop" =>
             /\ NoRepeat(CandidateLeaves(node_list))
             /\ Range(CandidateLeaves(node_list)) = DictKeys(letter_occurrence)
             /\ \A i \in 1..Len(node_list) :
                  node_list[i][1] = LeafWeight(letter_occurrence, node_list[i][3])
             /\ Len(node_list) + merges = Len(letter_occurrence)
        /\ pc = "reduced" =>
             /\ merges = Len(letter_occurrence) - 1
             /\ NoRepeat(LeafSeq(tree))
             /\ Range(LeafSeq(tree)) = DictKeys(letter_occurrence)
             /\ AllBinary(tree)

C9_Witness ==
    /\ pc = "reduced"
    /\ merges = 3
    /\ Len(letter_occurrence) = 4

(***************************************************************************)
(* C10: tie-break key                                                      *)
(***************************************************************************)
\* the order on (weight, representative symbol)
KeyLess(x, y) == x[1] < y[1] \/ (x[1] = y[1] /\ Ord[x[2]] < Ord[y[2]])

DistinctKeys ==
    pc = "loop" =>
        /\ \A i, j \in 1..Len(node_list) : i # j => node_list[i][2] # node_list[j][2]
        /\ ~third_compared

\* a step of the merge loop joins the two smallest candidates
TwoSmallestMerged ==
    (pc = "loop" /\ merges' = merges + 1) =>
        \E i, j \in 1..Len(node_list) :
            /\ i # j
            /\ KeyLess(node_list[i], node_list[j])
            /\ \A k \in 1..Len(node_list) \ {i, j} :
                 KeyLess(node_list[j], node_list[k])
            /\ Range(node_list') =
                 {node_list[k] : k \in 1..Len(node_list) \ {i, j}} \cup
                 {<<node_list[i][1] + node_list[j][1], node_list[i][2],
                    Pair(node_list[i][3], node_list[j][3])>>}

\* C10: in every state of node_reducer's candidate list the representative
\* symbols are pairwise distinct, so no comparison reaches the third tuple
\* component, and the two candidates merged are the two smallest by
\* (weight, representative symbol).
C10_TieBreak == []DistinctKeys /\ [][TwoSmallestMerged]_vars

C10_Witness ==
    /\ pc = "loop"
    /\ merges >= 1
    /\ \E i, j \in 1..Len(node_list) :
         /\ i # j
         /\ node_list[i][1] = node_list[j][1]
         /\ IsList(node_list[i][3])

====
